---- MODULE Spec2Model ----
(***************************************************************************)
(* Byte-level BPE tokenizer of LSTM-NLP-Predictions: ByteTokenizer,        *)
(* BpeTokenizer (train / encode), count_pairs, merge and MyDataset.        *)
(*                                                                         *)
(* Texts are sequences of Unicode code points; ids are integers; byte      *)
(* strings are sequences of integers 0..255.  Python lists are indexed     *)
(* from 0, TLA+ sequences from 1: numbers[i] of the code is numbers[i+1]   *)
(* here.  A call that raises leaves its exception in exc.                  *)
(***************************************************************************)
EXTENDS Integers, Sequences, FiniteSets, TLC

\* ------------------------------------------------------------------ bounds
MaxLen == 4        \* code points per text
MaxTexts == 2      \* texts per corpus
MaxMerges == 2     \* max_vocab ranges up to BaseSize + MaxMerges
MaxData == 1       \* texts per dataset

\* 'a', 'b' and the two-byte character U+00E9
Alphabet == {97, 98, 233}

RECURSIVE SeqsUpTo(_, _)
SeqsUpTo(S, n) ==
    IF n = 0 THEN {<<>>}
    ELSE LET R == SeqsUpTo(S, n - 1)
         IN  R \cup {Append(s, x) : s \in {r \in R : Len(r) = n - 1}, x \in S}

Texts == SeqsUpTo(Alphabet, MaxLen)
Corpora == SeqsUpTo(Texts, MaxTexts)
DataTexts == SeqsUpTo(Texts, MaxData)

\* ------------------------------------------------- str.encode('utf-8')
utf8_char(c) ==
    IF c < 128 THEN <<c>>
    ELSE IF c < 2048 THEN <<192 + (c \div 64), 128 + (c % 64)>>
    ELSE IF c < 65536
         THEN <<224 + (c \div 4096), 128 + ((c \div 64) % 64), 128 + (c % 64)>>
         ELSE <<240 + (c \div 262144), 128 + ((c \div 4096) % 64),
                128 + ((c \div 64) % 64), 128 + (c % 64)>>

RECURSIVE utf8_encode(_)
utf8_encode(text) ==
    IF text = <<>> THEN <<>>
    ELSE utf8_char(Head(text)) \o utf8_encode(Tail(text))

\* ------------------------------- bytes.decode('utf-8', errors='replace')
Replacement == 65533
IsCont(b) == b >= 128 /\ b <= 191

RECURSIVE utf8_decode(_)
utf8_decode(bs) ==
    IF bs = <<>> THEN <<>>
    ELSE LET b == bs[1]
             n == Len(bs)
             rest(k) == utf8_decode(SubSeq(bs, k + 1, n))
         IN  IF b < 128 THEN <<b>> \o rest(1)
             ELSE IF b >= 194 /\ b <= 223
             THEN IF n >= 2 /\ IsCont(bs[2])
                  THEN <<(b - 192) * 64 + (bs[2] - 128)>> \o rest(2)
                  ELSE <<Replacement>> \o rest(1)
             ELSE IF b >= 224 /\ b <= 239
             THEN LET lo == IF b = 224 THEN 160 ELSE 128
                      hi == IF b = 237 THEN 159 ELSE 191
                  IN  IF n >= 2 /\ bs[2] >= lo /\ bs[2] <= hi
                      THEN IF n >= 3 /\ IsCont(bs[3])
                           THEN <<(b - 224) * 4096 + (bs[2] - 128) * 64
                                  + (bs[3] - 128)>> \o rest(3)
                           ELSE <<Replacement>> \o rest(2)
                      ELSE <<Replacement>> \o rest(1)
             ELSE IF b >= 240 /\ b <= 244
             THEN LET lo == IF b = 240 THEN 144 ELSE 128
                      hi == IF b = 244 THEN 143 ELSE 191
                  IN  IF n >= 2 /\ bs[2] >= lo /\ bs[2] <= hi
                      THEN IF n >= 3 /\ IsCont(bs[3])
                           THEN IF n >= 4 /\ IsCont(bs[4])
                                THEN <<(b - 240) * 262144 + (bs[2] - 128) * 4096
                                       + (bs[3] - 128) * 64 + (bs[4] - 128)>>
                                     \o rest(4)
                                ELSE <<Replacement>> \o rest(3)
                           ELSE <<Replacement>> \o rest(2)
                      ELSE <<Replacement>> \o rest(1)
             ELSE <<Replacement>> \o rest(1)

\* ------------------------------------------------------- ByteTokenizer
pad_token == <<60, 112, 97, 100, 62>>      \* b'<pad>'
bos_token == <<60, 98, 111, 115, 62>>      \* b'<bos>'
eos_token == <<60, 101, 111, 115, 62>>     \* b'<eos>'
special_tokens == <<pad_token, bos_token, eos_token>>

\* vocab after ByteTokenizer.init_vocab: one entry per byte, then the
\* special tokens at the next free indices
base_vocab ==
    [idx \in 0..(255 + Len(special_tokens)) |->
        IF idx < 256 THEN <<idx>> ELSE special_tokens[idx - 255]]

\* token_to_id = {y: x for x, y in vocab.items()}: the last id wins
token_to_id(v, token) ==
    CHOOSE x \in DOMAIN v :
        v[x] = token /\ \A y \in DOMAIN v : v[y] = token => y <= x

\* variant: off by one, the index of the last entry instead of the next free one
get_vocab_size_last(v) == Cardinality(DOMAIN v) - 1

get_vocab_size(v) == Cardinality(DOMAIN v)

BaseSize == get_vocab_size(base_vocab)
Targets == (BaseSize - 1)..(BaseSize + MaxMerges)

RECURSIVE join_bytes(_, _)
join_bytes(v, seq) ==
    IF seq = <<>> THEN <<>> ELSE v[Head(seq)] \o join_bytes(v, Tail(seq))

decode(v, seq) == utf8_decode(join_bytes(v, seq))

\* ---------------------------------------------------------- count_pairs
\* The dict is kept as the sequence of its items in insertion order.
RECURSIVE dict_index(_, _, _)
dict_index(d, key, k) ==
    IF k > Len(d) THEN 0
    ELSE IF d[k].key = key THEN k ELSE dict_index(d, key, k + 1)

dict_incr(d, key) ==
    LET k == dict_index(d, key, 1)
    IN  IF k = 0 THEN Append(d, [key |-> key, val |-> 1])
        ELSE [d EXCEPT ![k].val = @ + 1]

RECURSIVE count_list(_, _, _)
count_list(d, i, j) ==
    IF j > Len(i) - 2 THEN d
    ELSE count_list(dict_incr(d, <<i[j + 1], i[j + 2]>>), i, j + 1)

RECURSIVE count_from(_, _, _)
count_from(d, data, k) ==
    IF k > Len(data) THEN d
    ELSE count_from(count_list(d, data[k], 0), data, k + 1)

RECURSIVE concat_all(_, _)
concat_all(data, k) ==
    IF k > Len(data) THEN <<>> ELSE data[k] \o concat_all(data, k + 1)

\* variant: the lists are counted as one list, across their boundaries
count_pairs_across(data) == count_list(<<>>, concat_all(data, 1), 0)

count_pairs(data) == count_from(<<>>, data, 1)

\* max(cnt, key=cnt.get): the first key, in insertion order, whose value is
\* not exceeded by any other
RECURSIVE max_from(_, _, _)
max_from(d, best, k) ==
    IF k > Len(d) THEN d[best].key
    ELSE max_from(d, IF d[k].val > d[best].val THEN k ELSE best, k + 1)

max_key(d) == max_from(d, 1, 2)

dict_get(d, key) == d[dict_index(d, key, 1)].val

\* ---------------------------------------------------------------- merge
Ok(v) == [exc |-> "none", val |-> v]
Raise(e) == [exc |-> e, val |-> <<>>]

RECURSIVE merge_loop(_, _, _, _)
merge_loop(numbers, pair_, idx, i) ==
    IF i = Len(numbers) - 1 THEN Ok(numbers)
    ELSE IF i > Len(numbers) - 1 THEN Raise("IndexError")
    ELSE IF <<numbers[i + 1], numbers[i + 2]>> = pair_
         THEN merge_loop(SubSeq(numbers, 1, i) \o <<idx>>
                            \o SubSeq(numbers, i + 3, Len(numbers)),
                         pair_, idx, i + 1)
         ELSE merge_loop(numbers, pair_, idx, i + 1)

merge(numbers, pair_, idx) == merge_loop(numbers, pair_, idx, 0)

\* for i, ids in enumerate(list_of_ids): list_of_ids[i] = merge(ids, ...)
RECURSIVE merge_all(_, _, _, _)
merge_all(lists, pair_, idx, k) ==
    IF k > Len(lists) THEN Ok(lists)
    ELSE LET r == merge(lists[k], pair_, idx)
         IN  IF r.exc # "none" THEN Raise(r.exc)
             ELSE merge_all([lists EXCEPT ![k] = r.val], pair_, idx, k + 1)

\* ---------------------------------------------------- BpeTokenizer.encode
AdjPairsOf(seq) == {<<seq[j], seq[j + 1]>> : j \in 1..(Len(seq) - 1)}

\* lines 105-111: one test of the while condition and, if it holds, one pass
\* through the body.  done: the loop is left; exc: the body raised.
\* variant: rank-ordered BPE, the earliest learned merge present is applied
encode_step_ranked(m, ids_) ==
    LET present == AdjPairsOf(ids_) \cap DOMAIN m
    IN  IF Len(ids_) <= 1
        THEN [done |-> TRUE, exc |-> "none", ids |-> ids_, pair |-> <<>>]
        ELSE IF present = {}
        THEN [done |-> TRUE, exc |-> "none", ids |-> ids_,
              pair |-> max_key(count_pairs(<<ids_>>))]
        ELSE LET p == CHOOSE q \in present : \A r \in present : m[q] <= m[r]
                 r == merge(ids_, p, m[p])
             IN  [done |-> FALSE, exc |-> r.exc, ids |-> r.val, pair |-> p]

encode_step(m, ids_) ==
    IF Len(ids_) <= 1
    THEN [done |-> TRUE, exc |-> "none", ids |-> ids_, pair |-> <<>>]
    ELSE LET cnt == count_pairs(<<ids_>>)
             p == max_key(cnt)
         IN  IF p \notin DOMAIN m
             THEN [done |-> TRUE, exc |-> "none", ids |-> ids_, pair |-> p]
             ELSE LET r == merge(ids_, p, m[p])
                  IN  [done |-> FALSE, exc |-> r.exc, ids |-> r.val, pair |-> p]

RECURSIVE encode_loop(_, _)
encode_loop(m, ids_) ==
    LET s == encode_step(m, ids_)
    IN  IF s.exc # "none" THEN Raise(s.exc)
        ELSE IF s.done THEN Ok(s.ids)
        ELSE encode_loop(m, s.ids)

\* the whole call: lines 104-112
encode(m, text_) == encode_loop(m, utf8_encode(text_))

\* ---------------------------------------------------------------- state
VARIABLES
    vocab,          \* self.vocab: id -> bytes
    merges,         \* self.merges: pair -> id
    pad_token_id, bos_token_id, eos_token_id,
    pc,             \* position of the single thread of control
    max_vocab,      \* train: argument
    texts,          \* train / MyDataset: argument, read when the lists are built
    list_of_ids,    \* train: local
    n_iter,         \* train: iterations of the for loop started so far
    pair,           \* train / encode: local
    text,           \* encode: argument
    ids,            \* encode: local, the value returned
    data,           \* MyDataset.data
    exc,            \* exception raised by the last call, if any
    trained,        \* how the last train call ended: never, running, ok, raised
    call_size       \* len(self.vocab) when train was entered, until line 67

tokvars == <<vocab, merges, pad_token_id, bos_token_id, eos_token_id>>
trainvars == <<max_vocab, texts, list_of_ids, n_iter>>
encvars == <<text, ids>>
vars == <<vocab, merges, pad_token_id, bos_token_id, eos_token_id, pc,
          max_vocab, texts, list_of_ids, n_iter, pair, text, ids, data, exc,
          trained, call_size>>

NoPair == <<>>
NoExc == [op |-> "none", exc |-> "none"]

\* BpeTokenizer(): merges = {}, then ByteTokenizer.__init__ -> init_vocab
Init ==
    /\ vocab = base_vocab
    /\ merges = <<>>
    /\ pad_token_id = token_to_id(base_vocab, pad_token)
    /\ bos_token_id = token_to_id(base_vocab, bos_token)
    /\ eos_token_id = token_to_id(base_vocab, eos_token)
    /\ pc = "idle"
    /\ max_vocab = 0
    /\ texts = <<>>
    /\ list_of_ids = <<>>
    /\ n_iter = 0
    /\ pair = NoPair
    /\ text = <<>>
    /\ ids = <<>>
    /\ data = <<>>
    /\ exc = NoExc
    /\ trained = "never"
    /\ call_size = 0

\* ---------------------------------------------------- BpeTokenizer.train
\* variant: the tokenizer is not re-initialised on entry
TrainCall_NoReset(target) ==
    /\ pc = "idle"
    /\ exc' = NoExc
    /\ max_vocab' = target
    /\ pc' = IF target <= get_vocab_size(vocab) THEN "train_ret" ELSE "train_load"
    /\ trained' = "running"
    /\ call_size' = get_vocab_size(vocab)
    /\ UNCHANGED <<tokvars, texts, list_of_ids, n_iter, pair, text, ids, data>>

\* lines 64-68: init_vocab, then the early return
TrainCall(target) ==
    /\ pc = "idle"
    /\ vocab' = base_vocab
    /\ merges' = <<>>
    /\ pad_token_id' = token_to_id(base_vocab, pad_token)
    /\ bos_token_id' = token_to_id(base_vocab, bos_token)
    /\ eos_token_id' = token_to_id(base_vocab, eos_token)
    /\ exc' = NoExc
    /\ max_vocab' = target
    /\ pc' = IF target <= get_vocab_size(base_vocab) THEN "train_ret" ELSE "train_load"
    /\ trained' = "running"
    /\ call_size' = get_vocab_size(vocab)
    /\ UNCHANGED <<texts, list_of_ids, n_iter, pair, text, ids, data>>

\* line 71: list_of_ids = [list(text.encode('utf-8')) for text in texts]
TrainLoad(corpus) ==
    /\ pc = "train_load"
    /\ texts' = corpus
    /\ list_of_ids' = [k \in 1..Len(corpus) |-> utf8_encode(corpus[k])]
    /\ n_iter' = 0
    /\ pc' = "train_loop"
    /\ call_size' = 0
    /\ UNCHANGED <<tokvars, max_vocab, pair, text, ids, data, exc, trained>>

\* lines 73-88: one pass through the for loop
TrainIter ==
    /\ pc = "train_loop"
    /\ IF n_iter >= max_vocab - BaseSize
       THEN \* range exhausted
            /\ pc' = "train_ret"
            /\ UNCHANGED <<tokvars, trainvars, pair, exc, trained>>
       ELSE LET cnt == count_pairs(list_of_ids)
            IN  IF cnt = <<>>
                THEN \* max() of an empty dict
                     /\ exc' = [op |-> "train", exc |-> "ValueError"]
                     /\ pc' = "idle"
                     /\ n_iter' = 0 /\ list_of_ids' = <<>> /\ texts' = <<>>
                     /\ max_vocab' = 0 /\ pair' = NoPair
                     /\ trained' = "raised"
                     /\ UNCHANGED tokvars
                ELSE LET p == max_key(cnt)
                         freq == dict_get(cnt, p)
                         new_idx == get_vocab_size(vocab)
                         r == merge_all(list_of_ids, p, new_idx, 1)
                     IN  IF freq = 1
                         THEN /\ pair' = p
                              /\ n_iter' = n_iter + 1
                              /\ pc' = "train_ret"
                              /\ UNCHANGED <<tokvars, max_vocab, texts,
                                             list_of_ids, exc, trained>>
                         ELSE /\ merges' = [q \in DOMAIN merges \cup {p} |->
                                               IF q = p THEN new_idx ELSE merges[q]]
                              /\ vocab' = [x \in DOMAIN vocab \cup {new_idx} |->
                                               IF x = new_idx
                                               THEN vocab[p[1]] \o vocab[p[2]]
                                               ELSE vocab[x]]
                              /\ UNCHANGED <<pad_token_id, bos_token_id, eos_token_id>>
                              /\ IF r.exc # "none"
                                 THEN /\ exc' = [op |-> "train", exc |-> r.exc]
                                      /\ pc' = "idle"
                                      /\ n_iter' = 0 /\ list_of_ids' = <<>>
                                      /\ texts' = <<>> /\ max_vocab' = 0
                                      /\ pair' = NoPair
                                      /\ trained' = "raised"
                                 ELSE /\ list_of_ids' = r.val
                                      /\ pair' = p
                                      /\ n_iter' = n_iter + 1
                                      /\ pc' = "train_loop"
                                      /\ UNCHANGED <<max_vocab, texts, exc, trained>>
    /\ UNCHANGED <<text, ids, data, call_size>>

\* train returns None; its frame is dropped
TrainReturn ==
    /\ pc = "train_ret"
    /\ pc' = "idle"
    /\ max_vocab' = 0 /\ texts' = <<>> /\ list_of_ids' = <<>> /\ n_iter' = 0
    /\ pair' = NoPair
    /\ trained' = "ok"
    /\ call_size' = 0
    /\ UNCHANGED <<tokvars, text, ids, data, exc>>

\* line 104: ids = list(text.encode('utf-8'))
EncodeCall(t) ==
    /\ pc = "idle"
    /\ text' = t
    /\ ids' = utf8_encode(t)
    /\ pair' = NoPair
    /\ exc' = NoExc
    /\ pc' = "encode_loop"
    /\ UNCHANGED <<tokvars, trainvars, data, trained, call_size>>

\* lines 105-111
EncodeIter ==
    /\ pc = "encode_loop"
    /\ LET s == encode_step(merges, ids)
       IN  IF s.exc # "none"
           THEN /\ exc' = [op |-> "encode", exc |-> s.exc]
                /\ pc' = "idle"
                /\ ids' = <<>> /\ text' = <<>> /\ pair' = NoPair
           ELSE /\ ids' = s.ids
                /\ pair' = IF s.pair = <<>> THEN pair ELSE s.pair
                /\ pc' = IF s.done THEN "encode_ret" ELSE "encode_loop"
                /\ UNCHANGED <<text, exc>>
    /\ UNCHANGED <<tokvars, trainvars, data, trained, call_size>>

\* line 112: return ids
EncodeReturn ==
    /\ pc = "encode_ret"
    /\ pc' = "idle"
    /\ ids' = <<>> /\ text' = <<>> /\ pair' = NoPair
    /\ UNCHANGED <<tokvars, trainvars, data, exc, trained, call_size>>

\* --------------------------------------------------------------- MyDataset
\* An element of a dataset item is a Python int or a Python bytes object.
PyInt(n) == [type |-> "int", val |-> n]
PyBytes(b) == [type |-> "bytes", val |-> b]

\* lines 36-39: the item built for one text
token_ids(m, t) ==
    LET r == encode(m, t)
    IN  IF r.exc # "none" THEN Raise(r.exc)
        ELSE Ok(<<PyBytes(bos_token)>>
                \o [k \in 1..Len(r.val) |-> PyInt(r.val[k])]
                \o <<PyBytes(eos_token)>>)

RECURSIVE dataset_items(_, _, _, _)
dataset_items(m, ts, k, acc) ==
    IF k > Len(ts) THEN Ok(acc)
    ELSE LET r == token_ids(m, ts[k])
         IN  IF r.exc # "none" THEN Raise(r.exc)
             ELSE dataset_items(m, ts, k + 1, Append(acc, r.val))

\* MyDataset.__init__(texts, tokenizer): lines 33-40
DatasetInit(ts) ==
    /\ pc = "idle"
    /\ LET r == dataset_items(merges, ts, 1, <<>>)
       IN  IF r.exc # "none"
           THEN /\ exc' = [op |-> "dataset", exc |-> r.exc]
                /\ data' = <<>>
                /\ texts' = <<>>
                /\ pc' = "idle"
           ELSE /\ exc' = NoExc
                /\ data' = r.val
                /\ texts' = ts
                /\ pc' = "dataset"
    /\ UNCHANGED <<tokvars, max_vocab, list_of_ids, n_iter, pair, encvars,
                   trained, call_size>>

\* the dataset object is released
DatasetDrop ==
    /\ pc = "dataset"
    /\ pc' = "idle"
    /\ data' = <<>>
    /\ texts' = <<>>
    /\ UNCHANGED <<tokvars, max_vocab, list_of_ids, n_iter, pair, encvars, exc,
                   trained, call_size>>

Next ==
    \/ \E target \in Targets : TrainCall(target)
    \/ (pc = "train_load" /\ \E corpus \in Corpora : TrainLoad(corpus))
    \/ TrainIter
    \/ TrainReturn
    \/ (pc = "idle" /\ \E t \in Texts : EncodeCall(t))
    \/ EncodeIter
    \/ EncodeReturn
    \/ (pc = "idle" /\ \E ts \in DataTexts : DatasetInit(ts))
    \/ DatasetDrop

Spec == Init /\ [][Next]_vars

\* ------------------------------------------------ reference definitions
\* positions <<k, j>> at which the pair q starts inside one sequence
Occurrences(lists, q) ==
    UNION {{<<k, j>> : j \in {i \in 1..(Len(lists[k]) - 1) :
                                lists[k][i] = q[1] /\ lists[k][i + 1] = q[2]}} :
              k \in 1..Len(lists)}

Freq(lists, q) == Cardinality(Occurrences(lists, q))

AdjPairs(lists) ==
    UNION {{<<lists[k][j], lists[k][j + 1]>> : j \in 1..(Len(lists[k]) - 1)} :
              k \in 1..Len(lists)}

IsMostFrequent(lists, q) ==
    /\ q \in AdjPairs(lists)
    /\ \A r \in AdjPairs(lists) : Freq(lists, r) <= Freq(lists, q)

\* the left-to-right scan of the rewrite rule
RECURSIVE scan_merge(_, _, _)
scan_merge(numbers, q, idx) ==
    IF Len(numbers) < 2 THEN numbers
    ELSE IF <<numbers[1], numbers[2]>> = q
         THEN <<idx>> \o scan_merge(SubSeq(numbers, 3, Len(numbers)), q, idx)
         ELSE <<numbers[1]>> \o scan_merge(Tail(numbers), q, idx)

\* the code points of "aaab"
AAAB == <<97, 97, 97, 98>>

\* ---------------------------------------------------------------- claims

\* C1: in every tokenizer state left by training that ended normally (or never
\* trained), encode(text) returns a sequence of vocabulary ids and never raises.
C1_EncodeNeverRaises ==
    trained \in {"never", "ok"} =>
        /\ exc.op # "encode"
        /\ pc = "encode_ret" => \A k \in 1..Len(ids) : ids[k] \in DOMAIN vocab

\* C2: train with max_vocab above the base size ends normally, after at most
\* max_vocab - 259 iterations, with the vocabulary at max_vocab or the largest
\* pooled pair frequency equal to 1; it never aborts inside an iteration after
\* recording the merge (the IndexError of merge).
C2_TrainTerminatesNormally ==
    /\ ~(exc.op = "train" /\ exc.exc = "IndexError")
    /\ pc \in {"train_loop", "train_ret"} /\ max_vocab > BaseSize =>
           n_iter <= max_vocab - BaseSize
    /\ pc = "train_ret" /\ max_vocab > BaseSize =>
           \/ Cardinality(DOMAIN vocab) = max_vocab
           \/ \E q \in AdjPairs(list_of_ids) :
                  IsMostFrequent(list_of_ids, q) /\ Freq(list_of_ids, q) = 1

\* C3: train on an empty corpus ends at once without error, records no merge
\* and leaves the vocabulary at 259 entries.
C3_EmptyCorpusNoError ==
    [][(pc = "train_loop" /\ texts = <<>>) =>
          /\ pc' = "train_ret"
          /\ exc' = NoExc
          /\ DOMAIN merges' = {}
          /\ Cardinality(DOMAIN vocab') = 259]_vars

\* C4 as stated: a train call made with max_vocab at or below the size the
\* vocabulary has at the call (the tokenizer fresh or left by a training that
\* ended normally) returns at once and leaves vocabulary and merge table as
\* they were.
C4_NoChangeAtOrBelowCurrentSize ==
    [][(/\ pc = "idle"
        /\ trained \in {"never", "ok"}
        /\ pc' \in {"train_ret", "train_load"}
        /\ max_vocab' <= Cardinality(DOMAIN vocab)) =>
          /\ pc' = "train_ret"
          /\ vocab' = vocab
          /\ merges' = merges]_vars

\* C4 amended: train with max_vocab at or below 259 returns at once without
\* error and leaves the tokenizer at the 259 base entries with an empty merge
\* table, whatever it held before.
C4_ResetAtOrBelowBase ==
    [][/\ (pc = "idle" /\ pc' # "idle" /\ call_size' > 0 /\ max_vocab' <= 259) =>
            /\ pc' = "train_ret"
            /\ vocab' = base_vocab
            /\ DOMAIN merges' = {}
            /\ exc' = NoExc
       /\ (pc = "train_ret" /\ max_vocab <= 259) =>
            /\ pc' = "idle"
            /\ trained' = "ok"
            /\ vocab' = base_vocab
            /\ DOMAIN merges' = {}
            /\ exc' = NoExc]_vars

C4_Witness ==
    pc = "train_ret" /\ max_vocab <= 259 /\ call_size > 259

\* C5: every completed training iteration adds exactly one vocabulary entry and
\* one merge-table entry for a pair not yet in the table, with the next free
\* id; the table's values are exactly 259..size-1 and no entry is overwritten.
C5_DenseIncreasingIds ==
    [][(pc = "train_loop" /\ pc' = "train_loop") =>
          LET size == Cardinality(DOMAIN vocab)
          IN  /\ Cardinality(DOMAIN vocab') = size + 1
              /\ Cardinality(DOMAIN vocab') = 259 + Cardinality(DOMAIN merges')
              /\ pair' \notin DOMAIN merges
              /\ DOMAIN merges' = DOMAIN merges \cup {pair'}
              /\ merges'[pair'] = size
              /\ \A q \in DOMAIN merges : merges'[q] = merges[q]
              /\ {merges'[q] : q \in DOMAIN merges'} = 259..size
              /\ n_iter' = n_iter + 1]_vars

C5_Witness ==
    pc = "train_loop" /\ n_iter = 2 /\ Cardinality(DOMAIN merges) = 2

\* C7: the pair a training iteration records is a most frequent adjacent pair,
\* occurrences counted inside each sequence and pooled over the sequences; for
\* the corpus ["aaab", "aaab"] and max_vocab 260 the one iteration records
\* (97,97) -> 259 with vocab[259] = b"aa", rewrites both sequences to
\* [259,97,98] and leaves 260 entries with the loop exhausted.
C7_RecordsMostFrequentPair ==
    [][(pc = "train_loop" /\ DOMAIN merges' # DOMAIN merges) =>
          /\ \A q \in DOMAIN merges' \ DOMAIN merges :
                 IsMostFrequent(list_of_ids, q)
          /\ (texts = <<AAAB, AAAB>> /\ max_vocab = 260) =>
                 /\ DOMAIN merges' = {<<97, 97>>}
                 /\ merges'[<<97, 97>>] = 259
                 /\ vocab'[259] = <<97, 97>>
                 /\ list_of_ids' = <<<<259, 97, 98>>, <<259, 97, 98>>>>
                 /\ Cardinality(DOMAIN vocab') = 260
                 /\ pc' = "train_loop" /\ n_iter' = max_vocab - 259]_vars

C7_Witness ==
    /\ pc = "train_loop"
    /\ texts = <<AAAB, AAAB>>
    /\ max_vocab = 260
    /\ n_iter = 1
    /\ DOMAIN merges = {<<97, 97>>}

\* C10: a pass of the encode loop considers a most frequent adjacent pair of
\* the working sequence; if that pair is not in the merge table the loop is
\* left with the working sequence as it is, whatever other pairs of it are in
\* the table; encode changes neither the vocabulary nor the merge table.
C10_EncodeByTextFrequency ==
    [][(pc \in {"encode_loop", "encode_ret"}) =>
          /\ vocab' = vocab
          /\ merges' = merges
          /\ (pc = "encode_loop" /\ Len(ids) > 1 /\ pc' # "idle") =>
                /\ IsMostFrequent(<<ids>>, pair')
                /\ pair' \notin DOMAIN merges => (pc' = "encode_ret" /\ ids' = ids)
                /\ pair' \in DOMAIN merges =>
                      (pc' = "encode_loop" /\ Len(ids') < Len(ids))]_vars

C10_Witness ==
    /\ pc = "encode_ret"
    /\ Len(ids) > 1
    /\ pair \notin DOMAIN merges
    /\ \E j \in 1..(Len(ids) - 1) : <<ids[j], ids[j + 1]>> \in DOMAIN merges

\* C6: once training has completed, an encode call returns ids whose
\* vocabulary bytes decode to the text encoded, and encoding that decoded text
\* again gives the same ids.
C6_EncodeDecodeRoundTrip ==
    [][(pc = "encode_loop" /\ pc' # "encode_loop" /\ trained = "ok") =>
          /\ pc' = "encode_ret"
          /\ decode(vocab, ids') = text
          /\ encode(merges, decode(vocab, ids')) = Ok(ids')]_vars

\* C8: every dataset item is [bos_token_id] + encode(text) + [eos_token_id]
\* with bos_token_id = 257 and eos_token_id = 258, all of its elements integer
\* ids of the vocabulary.
C8_DatasetItemsAreIds ==
    pc = "dataset" =>
        \A k \in 1..Len(data) :
            LET item == data[k]
                e == encode(merges, texts[k]).val
            IN  /\ Len(item) = Len(e) + 2
                /\ \A j \in 1..Len(item) :
                       item[j].type = "int" /\ item[j].val \in DOMAIN vocab
                /\ bos_token_id = 257 /\ eos_token_id = 258
                /\ item[1].val = bos_token_id
                /\ item[Len(item)].val = eos_token_id
                /\ \A j \in 1..Len(e) : item[j + 1].val = e[j]

\* C9: a rewrite pass returns the left-to-right scan of its argument, in which
\* each occurrence of the pair not overlapping an earlier replaced one becomes
\* the new id; this for every pass train and encode make.
C9_MergeIsLeftToRightScan ==
    [][/\ (pc = "train_loop" /\ DOMAIN merges' # DOMAIN merges) =>
            LET p == CHOOSE q \in DOMAIN merges' : q \notin DOMAIN merges
            IN  /\ pc' = "train_loop"
                /\ list_of_ids' =
                       [k \in 1..Len(list_of_ids) |->
                           scan_merge(list_of_ids[k], p, merges'[p])]
       /\ (pc = "encode_loop" /\ Len(ids) > 1
              /\ max_key(count_pairs(<<ids>>)) \in DOMAIN merges) =>
            LET p == max_key(count_pairs(<<ids>>))
            IN  /\ pc' = "encode_loop"
                /\ ids' = scan_merge(ids, p, merges[p])]_vars
====
